---- MODULE Spec2Model ----
(***************************************************************************)
(* Model of the ticket tree resolvers of src/server.js.                    *)
(*                                                                         *)
(* The store (models.Ticket, module ./db) is a keyed table of tickets.     *)
(* Its operations are not part of server.js; they follow the description   *)
(* of the TicketStore: point lookup, scan by parentId, create, field       *)
(* update, and a delete that orphans the children of the deleted row.      *)
(*                                                                         *)
(* Every resolver is a chain of promises: each store access (findByPk,     *)
(* update, destroy) is one step.  A resolver's first action is the         *)
(* request arriving together with its first store access; a request's      *)
(* record is kept until its result has been handed back and none of its    *)
(* promise chains is left.  Spec runs one request at a time; SpecConc and  *)
(* SpecBulk interleave the steps of several; SpecFail lets store accesses  *)
(* fail; SpecRepeat re-parents one ticket at a time.                       *)
(***************************************************************************)
EXTENDS Integers, Sequences, FiniteSets, TLC

MaxId == 3           \* ids the store hands out, and ids a request may name
MaxChildren == 2     \* longest childrenIds list of an addChildren request
MaxCallers == 2      \* requests that may be in flight together

Null == 0            \* parentId: null

Ids == 1..MaxId
Callers == 1..MaxCallers

ChildLists == UNION {[1..n -> Ids] : n \in 0..MaxChildren}

VARIABLES store,    \* the tickets table: id -> row
          nextId,   \* the id the table hands out next
          calls,    \* the request each caller has in flight
          pre       \* the table as it was when the latest request was received

vars == <<store, nextId, calls, pre>>

----------------------------------------------------------------------------
(* models.Ticket: the table and its operations *)

NoTicket == [exists |-> FALSE, title |-> "", isCompleted |-> FALSE, parentId |-> Null]

Ticket(title, isCompleted, parentId) ==
    [exists |-> TRUE, title |-> title, isCompleted |-> isCompleted, parentId |-> parentId]

\* findByPk(id): the row, or null
findByPk(s, id) == s[id].exists

\* Ticket.create({title, isCompleted}): a new root row under a fresh id
create(s, id, title, isCompleted) ==
    [s EXCEPT ![id] = Ticket(title, isCompleted, Null)]

\* ticket.update({parentId}): UPDATE ... WHERE id = ticket.id
updateParentId(s, id, parentId) ==
    IF s[id].exists THEN [s EXCEPT ![id].parentId = parentId] ELSE s

updateTitle(s, id, title) ==
    IF s[id].exists THEN [s EXCEPT ![id].title = title] ELSE s

updateIsCompleted(s, id, isCompleted) ==
    IF s[id].exists THEN [s EXCEPT ![id].isCompleted = isCompleted] ELSE s

\* ticket.destroy(): the row is deleted, its children become roots
destroy(s, id) ==
    [k \in Ids |->
        IF k = id THEN NoTicket
        ELSE IF s[k].exists /\ s[k].parentId = id
             THEN [s[k] EXCEPT !.parentId = Null]
             ELSE s[k]]

\* findAll({where: {parentId: null}})
findAllRoots(s) == {k \in Ids : s[k].exists /\ s[k].parentId = Null}

\* ticket.getChildren()
getChildren(s, id) == {k \in Ids : s[k].exists /\ s[k].parentId = id}

----------------------------------------------------------------------------
(* results handed back by a resolver *)

Pending == [kind |-> "pending"]
TicketResult(id) == [kind |-> "ticket", id |-> id]
ArrayResult(ids) == [kind |-> "array", ids |-> ids]
RootsResult(ids) == [kind |-> "tickets", ids |-> ids]
ChildrenResult(ids) == [kind |-> "children", ids |-> ids]
NullResult == [kind |-> "null"]
BoolResult(b) == [kind |-> "boolean", val |-> b]
ErrorResult(msg, id) == [kind |-> "error", msg |-> msg, id |-> id]

\* the error a store access rejects with when it fails
Rejection(id) == ErrorResult("store access failed", id)

EmptyStore == [k \in Ids |-> NoTicket]

\* a caller with no request in flight
Idle ==
    [op |-> "none", pc |-> "idle", id |-> Null, parentId |-> Null,
     childrenIds |-> <<>>, title |-> "", isCompleted |-> FALSE,
     subs |-> <<>>, locked |-> 0, result |-> Pending]

\* the request record of a resolver entered with the given arguments
Request(op, id, parentId, childrenIds) ==
    [Idle EXCEPT !.op = op, !.id = id, !.parentId = parentId,
                 !.childrenIds = childrenIds]

Done(req, result) == [req EXCEPT !.pc = "done", !.result = result]

Init ==
    /\ store = EmptyStore
    /\ nextId = 1
    /\ calls = [c \in Callers |-> Idle]
    /\ pre = EmptyStore

----------------------------------------------------------------------------
(* Query *)

\* Query.tickets
tickets(c) ==
    /\ calls[c].pc = "idle"
    /\ calls' = [calls EXCEPT ![c] =
                   Done(Request("tickets", Null, Null, <<>>),
                        RootsResult(findAllRoots(store)))]
    /\ pre' = store
    /\ UNCHANGED <<store, nextId>>

\* Query.ticket
ticket(c, id) ==
    /\ calls[c].pc = "idle"
    /\ calls' = [calls EXCEPT ![c] =
                   Done(Request("ticket", id, Null, <<>>),
                        IF findByPk(store, id) THEN TicketResult(id) ELSE NullResult)]
    /\ pre' = store
    /\ UNCHANGED <<store, nextId>>

\* Ticket.children
children(c, id) ==
    /\ calls[c].pc = "idle"
    /\ calls' = [calls EXCEPT ![c] =
                   Done(Request("children", id, Null, <<>>),
                        ChildrenResult(getChildren(store, id)))]
    /\ pre' = store
    /\ UNCHANGED <<store, nextId>>

----------------------------------------------------------------------------
(* Mutation *)

createTicket(c, title, isCompleted) ==
    /\ calls[c].pc = "idle"
    /\ nextId <= MaxId
    /\ store' = create(store, nextId, title, isCompleted)
    /\ nextId' = nextId + 1
    /\ calls' = [calls EXCEPT ![c] =
                   Done([Request("createTicket", nextId, Null, <<>>)
                           EXCEPT !.title = title, !.isCompleted = isCompleted],
                        TicketResult(nextId))]
    /\ pre' = store

\* updateTicket: findByPk(id), then throw or go on to ticket.update({title})
updateTicket(c, id, title) ==
    /\ calls[c].pc = "idle"
    /\ LET req == [Request("updateTicket", id, Null, <<>>) EXCEPT !.title = title]
       IN calls' = [calls EXCEPT ![c] =
                      IF findByPk(store, id)
                      THEN [req EXCEPT !.pc = "update"]
                      ELSE Done(req, ErrorResult("Ticket not found", id))]
    /\ pre' = store
    /\ UNCHANGED <<store, nextId>>

\* a faulty variant of updateTicketUpdate, whose update writes parentId too
updateTicketUpdateDetaching(c) ==
    /\ calls[c].op = "updateTicket"
    /\ calls[c].pc = "update"
    /\ store' = updateParentId(updateTitle(store, calls[c].id, calls[c].title),
                               calls[c].id, Null)
    /\ calls' = [calls EXCEPT ![c] = Done(calls[c], TicketResult(calls[c].id))]
    /\ UNCHANGED <<nextId, pre>>

updateTicketUpdate(c) ==
    /\ calls[c].op = "updateTicket"
    /\ calls[c].pc = "update"
    /\ store' = updateTitle(store, calls[c].id, calls[c].title)
    /\ calls' = [calls EXCEPT ![c] = Done(calls[c], TicketResult(calls[c].id))]
    /\ UNCHANGED <<nextId, pre>>

\* toggleTicket: findByPk(id), then throw or go on to ticket.update({isCompleted})
toggleTicket(c, id, isCompleted) ==
    /\ calls[c].pc = "idle"
    /\ LET req == [Request("toggleTicket", id, Null, <<>>)
                     EXCEPT !.isCompleted = isCompleted]
       IN calls' = [calls EXCEPT ![c] =
                      IF findByPk(store, id)
                      THEN [req EXCEPT !.pc = "update"]
                      ELSE Done(req, ErrorResult("Ticket not found", id))]
    /\ pre' = store
    /\ UNCHANGED <<store, nextId>>

toggleTicketUpdate(c) ==
    /\ calls[c].op = "toggleTicket"
    /\ calls[c].pc = "update"
    /\ store' = updateIsCompleted(store, calls[c].id, calls[c].isCompleted)
    /\ calls' = [calls EXCEPT ![c] = Done(calls[c], TicketResult(calls[c].id))]
    /\ UNCHANGED <<nextId, pre>>

\* removeTicket: findByPk(id), then return false or go on to ticket.destroy()
removeTicket(c, id) ==
    /\ calls[c].pc = "idle"
    /\ LET req == Request("removeTicket", id, Null, <<>>)
       IN calls' = [calls EXCEPT ![c] =
                      IF findByPk(store, id)
                      THEN [req EXCEPT !.pc = "destroy"]
                      ELSE Done(req, BoolResult(FALSE))]
    /\ pre' = store
    /\ UNCHANGED <<store, nextId>>

removeTicketDestroy(c) ==
    /\ calls[c].op = "removeTicket"
    /\ calls[c].pc = "destroy"
    /\ store' = destroy(store, calls[c].id)
    /\ calls' = [calls EXCEPT ![c] = Done(calls[c], BoolResult(TRUE))]
    /\ UNCHANGED <<nextId, pre>>

\* setParentOfTicket: findByPk(childId), then return false or go on to
\* ticket.update({parentId})
setParentOfTicket(c, parentId, childId) ==
    /\ calls[c].pc = "idle"
    /\ LET req == Request("setParentOfTicket", childId, parentId, <<>>)
       IN calls' = [calls EXCEPT ![c] =
                      IF findByPk(store, childId)
                      THEN [req EXCEPT !.pc = "update"]
                      ELSE Done(req, BoolResult(FALSE))]
    /\ pre' = store
    /\ UNCHANGED <<store, nextId>>

setParentOfTicketUpdate(c) ==
    /\ calls[c].op = "setParentOfTicket"
    /\ calls[c].pc = "update"
    /\ store' = updateParentId(store, calls[c].id, calls[c].parentId)
    /\ calls' = [calls EXCEPT ![c] = Done(calls[c], TicketResult(calls[c].id))]
    /\ UNCHANGED <<nextId, pre>>

\* removeParentFromTicket: findByPk(id), then return false or go on to
\* ticket.update({parentId: null})
removeParentFromTicket(c, id) ==
    /\ calls[c].pc = "idle"
    /\ LET req == Request("removeParentFromTicket", id, Null, <<>>)
       IN calls' = [calls EXCEPT ![c] =
                      IF findByPk(store, id)
                      THEN [req EXCEPT !.pc = "update"]
                      ELSE Done(req, BoolResult(FALSE))]
    /\ pre' = store
    /\ UNCHANGED <<store, nextId>>

removeParentFromTicketUpdate(c) ==
    /\ calls[c].op = "removeParentFromTicket"
    /\ calls[c].pc = "update"
    /\ store' = updateParentId(store, calls[c].id, Null)
    /\ calls' = [calls EXCEPT ![c] = Done(calls[c], TicketResult(calls[c].id))]
    /\ UNCHANGED <<nextId, pre>>

\* the per-child promise chains of an addChildren request that are over
Settled(subs) == \A i \in DOMAIN subs : subs[i] \in {"updated", "missing", "failed"}

\* a faulty variant of addChildrenToTicket, which starts the per-child chains
\* without looking at what findByPk(parentId) found
addChildrenToTicketUnchecked(c, parentId, childrenIds) ==
    /\ calls[c].pc = "idle"
    /\ calls' = [calls EXCEPT ![c] =
                   [Request("addChildrenToTicket", Null, parentId, childrenIds)
                      EXCEPT !.pc = "children",
                             !.subs = [i \in DOMAIN childrenIds |-> "find"]]]
    /\ pre' = store
    /\ UNCHANGED <<store, nextId>>

\* addChildrenToTicket: findByPk(parentId), then throw or start one
\* findByPk(childrenId) chain per entry of childrenIds inside one new Promise
addChildrenToTicket(c, parentId, childrenIds) ==
    /\ calls[c].pc = "idle"
    /\ LET req == Request("addChildrenToTicket", Null, parentId, childrenIds)
       IN calls' = [calls EXCEPT ![c] =
                      IF findByPk(store, parentId)
                      THEN [req EXCEPT !.pc = "children",
                                       !.subs = [i \in DOMAIN childrenIds |-> "find"]]
                      ELSE Done(req, ErrorResult("Parent ticket not found", parentId))]
    /\ pre' = store
    /\ UNCHANGED <<store, nextId>>

\* the .then of child i: reject when the child is missing (the update of null
\* that follows throws into the .catch, which logs); otherwise start
\* ticket.update({parentId}) and resolve the one promise with it, which only
\* the first settlement of that promise does
addChildrenToTicketThen(c, i) ==
    /\ calls[c].op = "addChildrenToTicket"
    /\ calls[c].pc = "children"
    /\ i \in DOMAIN calls[c].subs
    /\ calls[c].subs[i] = "find"
    /\ LET call == calls[c]
           childrenId == call.childrenIds[i]
           open == call.result = Pending /\ call.locked = 0
           subs == [call.subs EXCEPT ![i] =
                      IF findByPk(store, childrenId) THEN "update" ELSE "missing"]
       IN calls' = [calls EXCEPT ![c] =
                      [call EXCEPT
                         !.subs = subs,
                         !.pc = IF Settled(subs) THEN "done" ELSE "children",
                         !.locked = IF open /\ findByPk(store, childrenId)
                                    THEN i ELSE call.locked,
                         !.result = IF open /\ ~findByPk(store, childrenId)
                                    THEN ErrorResult("Children ticket does not exists",
                                                     childrenId)
                                    ELSE call.result]]
    /\ UNCHANGED <<store, nextId, pre>>

\* a faulty variant of addChildrenToTicketUpdate, whose update is not
\* idempotent: a ticket that is already a child of parentId is detached
addChildrenToTicketUpdateDetaching(c, i) ==
    /\ calls[c].op = "addChildrenToTicket"
    /\ calls[c].pc = "children"
    /\ i \in DOMAIN calls[c].subs
    /\ calls[c].subs[i] = "update"
    /\ LET call == calls[c]
           subs == [call.subs EXCEPT ![i] = "updated"]
       IN /\ store' = updateParentId(store, call.childrenIds[i],
                         IF store[call.childrenIds[i]].parentId = call.parentId
                         THEN Null ELSE call.parentId)
          /\ calls' = [calls EXCEPT ![c] =
                         [call EXCEPT
                            !.subs = subs,
                            !.pc = IF Settled(subs) THEN "done" ELSE "children",
                            !.result = IF call.locked = i
                                       THEN TicketResult(call.childrenIds[i])
                                       ELSE call.result]]
    /\ UNCHANGED <<nextId, pre>>

\* the update of child i completes; the request's promise follows the update
\* it was resolved with
addChildrenToTicketUpdate(c, i) ==
    /\ calls[c].op = "addChildrenToTicket"
    /\ calls[c].pc = "children"
    /\ i \in DOMAIN calls[c].subs
    /\ calls[c].subs[i] = "update"
    /\ LET call == calls[c]
           subs == [call.subs EXCEPT ![i] = "updated"]
       IN /\ store' = updateParentId(store, call.childrenIds[i], call.parentId)
          /\ calls' = [calls EXCEPT ![c] =
                         [call EXCEPT
                            !.subs = subs,
                            !.pc = IF Settled(subs) THEN "done" ELSE "children",
                            !.result = IF call.locked = i
                                       THEN TicketResult(call.childrenIds[i])
                                       ELSE call.result]]
    /\ UNCHANGED <<nextId, pre>>

\* addChildrenToTicketReturningArray: findByPk(parentId), then throw or start
\* one promise per entry of childrenIds and wait for Promise.all of them
addChildrenToTicketReturningArray(c, parentId, childrenIds) ==
    /\ calls[c].pc = "idle"
    /\ LET req == Request("addChildrenToTicketReturningArray", Null, parentId,
                          childrenIds)
       IN calls' = [calls EXCEPT ![c] =
                      IF ~findByPk(store, parentId)
                      THEN Done(req, ErrorResult("Parent ticket not found", parentId))
                      ELSE IF childrenIds = <<>>
                      THEN Done(req, ArrayResult(<<>>))
                      ELSE [req EXCEPT !.pc = "children",
                                       !.subs = [i \in DOMAIN childrenIds |-> "find"]]]
    /\ pre' = store
    /\ UNCHANGED <<store, nextId>>

\* the .then of child i: its promise rejects when the child is missing, and
\* Promise.all rejects with the first rejection; otherwise the update starts
addChildrenToTicketReturningArrayThen(c, i) ==
    /\ calls[c].op = "addChildrenToTicketReturningArray"
    /\ calls[c].pc = "children"
    /\ i \in DOMAIN calls[c].subs
    /\ calls[c].subs[i] = "find"
    /\ LET call == calls[c]
           childrenId == call.childrenIds[i]
           subs == [call.subs EXCEPT ![i] =
                      IF findByPk(store, childrenId) THEN "update" ELSE "missing"]
       IN calls' = [calls EXCEPT ![c] =
                      [call EXCEPT
                         !.subs = subs,
                         !.pc = IF Settled(subs) THEN "done" ELSE "children",
                         !.result = IF call.result = Pending
                                       /\ ~findByPk(store, childrenId)
                                    THEN ErrorResult("Children ticket does not exists",
                                                     childrenId)
                                    ELSE call.result]]
    /\ UNCHANGED <<store, nextId, pre>>

\* the update of child i completes and fulfils its promise; Promise.all
\* fulfils with the array once every promise has
addChildrenToTicketReturningArrayUpdate(c, i) ==
    /\ calls[c].op = "addChildrenToTicketReturningArray"
    /\ calls[c].pc = "children"
    /\ i \in DOMAIN calls[c].subs
    /\ calls[c].subs[i] = "update"
    /\ LET call == calls[c]
           subs == [call.subs EXCEPT ![i] = "updated"]
       IN /\ store' = updateParentId(store, call.childrenIds[i], call.parentId)
          /\ calls' = [calls EXCEPT ![c] =
                         [call EXCEPT
                            !.subs = subs,
                            !.pc = IF Settled(subs) THEN "done" ELSE "children",
                            !.result = IF \A j \in DOMAIN subs : subs[j] = "updated"
                                       THEN ArrayResult(call.childrenIds)
                                       ELSE call.result]]
    /\ UNCHANGED <<nextId, pre>>

\* the result has been handed back and no promise chain of the request is left
Return(c) ==
    /\ calls[c].pc = "done"
    /\ calls[c].result # Pending
    /\ calls' = [calls EXCEPT ![c] = Idle]
    /\ UNCHANGED <<store, nextId, pre>>

----------------------------------------------------------------------------
(* store accesses that fail: the promise of findByPk, update or destroy *)
(* rejects                                                               *)

\* removeTicket: findByPk(id) rejects, and so does the request
removeTicketRejects(c, id) ==
    /\ calls[c].pc = "idle"
    /\ calls' = [calls EXCEPT ![c] =
                   Done(Request("removeTicket", id, Null, <<>>), Rejection(id))]
    /\ pre' = store
    /\ UNCHANGED <<store, nextId>>

\* removeTicket: ticket.destroy() rejects, and the .catch returns false
removeTicketCatch(c) ==
    /\ calls[c].op = "removeTicket"
    /\ calls[c].pc = "destroy"
    /\ calls' = [calls EXCEPT ![c] = Done(calls[c], BoolResult(FALSE))]
    /\ UNCHANGED <<store, nextId, pre>>

\* addChildrenToTicket: findByPk(parentId) rejects, and so does the request
addChildrenToTicketRejects(c, parentId, childrenIds) ==
    /\ calls[c].pc = "idle"
    /\ calls' = [calls EXCEPT ![c] =
                   Done(Request("addChildrenToTicket", Null, parentId, childrenIds),
                        Rejection(parentId))]
    /\ pre' = store
    /\ UNCHANGED <<store, nextId>>

\* the .catch of child i: findByPk(childrenId) rejected; the error is logged
\* and the request's promise is left as it is
addChildrenToTicketCatch(c, i) ==
    /\ calls[c].op = "addChildrenToTicket"
    /\ calls[c].pc = "children"
    /\ i \in DOMAIN calls[c].subs
    /\ calls[c].subs[i] = "find"
    /\ LET call == calls[c]
           subs == [call.subs EXCEPT ![i] = "failed"]
       IN calls' = [calls EXCEPT ![c] =
                      [call EXCEPT
                         !.subs = subs,
                         !.pc = IF Settled(subs) THEN "done" ELSE "children"]]
    /\ UNCHANGED <<store, nextId, pre>>

\* the update of child i rejects: the request's promise rejects with it when
\* it was resolved with this update, and nothing handles it otherwise
addChildrenToTicketUpdateRejects(c, i) ==
    /\ calls[c].op = "addChildrenToTicket"
    /\ calls[c].pc = "children"
    /\ i \in DOMAIN calls[c].subs
    /\ calls[c].subs[i] = "update"
    /\ LET call == calls[c]
           subs == [call.subs EXCEPT ![i] = "failed"]
       IN calls' = [calls EXCEPT ![c] =
                      [call EXCEPT
                         !.subs = subs,
                         !.pc = IF Settled(subs) THEN "done" ELSE "children",
                         !.result = IF call.locked = i
                                    THEN Rejection(call.childrenIds[i])
                                    ELSE call.result]]
    /\ UNCHANGED <<store, nextId, pre>>

\* addChildrenToTicketReturningArray: findByPk(parentId) rejects, and so does
\* the request
addChildrenToTicketReturningArrayRejects(c, parentId, childrenIds) ==
    /\ calls[c].pc = "idle"
    /\ calls' = [calls EXCEPT ![c] =
                   Done(Request("addChildrenToTicketReturningArray", Null, parentId,
                                childrenIds),
                        Rejection(parentId))]
    /\ pre' = store
    /\ UNCHANGED <<store, nextId>>

\* the .catch of child i: findByPk(childrenId) rejected; the error is logged
\* and the promise of child i is never settled
addChildrenToTicketReturningArrayCatch(c, i) ==
    /\ calls[c].op = "addChildrenToTicketReturningArray"
    /\ calls[c].pc = "children"
    /\ i \in DOMAIN calls[c].subs
    /\ calls[c].subs[i] = "find"
    /\ LET call == calls[c]
           subs == [call.subs EXCEPT ![i] = "failed"]
       IN calls' = [calls EXCEPT ![c] =
                      [call EXCEPT
                         !.subs = subs,
                         !.pc = IF Settled(subs) THEN "done" ELSE "children"]]
    /\ UNCHANGED <<store, nextId, pre>>

\* the update of child i rejects, and with it the promise of child i, which
\* was resolved with the update; Promise.all rejects with the first rejection
addChildrenToTicketReturningArrayUpdateRejects(c, i) ==
    /\ calls[c].op = "addChildrenToTicketReturningArray"
    /\ calls[c].pc = "children"
    /\ i \in DOMAIN calls[c].subs
    /\ calls[c].subs[i] = "update"
    /\ LET call == calls[c]
           subs == [call.subs EXCEPT ![i] = "failed"]
       IN calls' = [calls EXCEPT ![c] =
                      [call EXCEPT
                         !.subs = subs,
                         !.pc = IF Settled(subs) THEN "done" ELSE "children",
                         !.result = IF call.result = Pending
                                    THEN Rejection(call.childrenIds[i])
                                    ELSE call.result]]
    /\ UNCHANGED <<store, nextId, pre>>

\* the store accesses of caller c that fail
Rejects(c) ==
    \/ \E id \in Ids : removeTicketRejects(c, id)
    \/ removeTicketCatch(c)
    \/ \E parentId \in Ids, childrenIds \in ChildLists :
          addChildrenToTicketRejects(c, parentId, childrenIds)
    \/ \E i \in 1..MaxChildren : addChildrenToTicketCatch(c, i)
    \/ \E i \in 1..MaxChildren : addChildrenToTicketUpdateRejects(c, i)
    \/ \E parentId \in Ids, childrenIds \in ChildLists :
          addChildrenToTicketReturningArrayRejects(c, parentId, childrenIds)
    \/ \E i \in 1..MaxChildren : addChildrenToTicketReturningArrayCatch(c, i)
    \/ \E i \in 1..MaxChildren : addChildrenToTicketReturningArrayUpdateRejects(c, i)

----------------------------------------------------------------------------

\* the steps open to caller c, with createTicket, updateTicket and toggleTicket
\* taking their title and isCompleted arguments from the given sets
Resolve(c, titles, flags) ==
    \/ tickets(c)
    \/ \E id \in Ids : ticket(c, id)
    \/ \E id \in Ids : children(c, id)
    \/ \E title \in titles, isCompleted \in flags : createTicket(c, title, isCompleted)
    \/ \E id \in Ids, title \in titles : updateTicket(c, id, title)
    \/ updateTicketUpdate(c)
    \/ \E id \in Ids, isCompleted \in flags : toggleTicket(c, id, isCompleted)
    \/ toggleTicketUpdate(c)
    \/ \E id \in Ids : removeTicket(c, id)
    \/ removeTicketDestroy(c)
    \/ \E parentId \in Ids, childrenIds \in ChildLists :
          addChildrenToTicket(c, parentId, childrenIds)
    \/ \E i \in 1..MaxChildren : addChildrenToTicketThen(c, i)
    \/ \E i \in 1..MaxChildren : addChildrenToTicketUpdate(c, i)
    \/ \E parentId \in Ids, childrenIds \in ChildLists :
          addChildrenToTicketReturningArray(c, parentId, childrenIds)
    \/ \E i \in 1..MaxChildren : addChildrenToTicketReturningArrayThen(c, i)
    \/ \E i \in 1..MaxChildren : addChildrenToTicketReturningArrayUpdate(c, i)
    \/ \E parentId \in Ids, childId \in Ids : setParentOfTicket(c, parentId, childId)
    \/ setParentOfTicketUpdate(c)
    \/ \E id \in Ids : removeParentFromTicket(c, id)
    \/ removeParentFromTicketUpdate(c)
    \/ Return(c)

\* one request at a time, every ticket created as createTicket(title: "Epic")
Next == Resolve(1, {"Epic"}, {FALSE})

Spec == Init /\ [][Next]_vars

\* requests interleaved: the callers create tickets, read the roots and
\* re-parent, each store access of each request being a step of its own
Reparent(c) ==
    \/ tickets(c)
    \/ createTicket(c, "Epic", FALSE)
    \/ \E parentId \in Ids, childId \in Ids : setParentOfTicket(c, parentId, childId)
    \/ setParentOfTicketUpdate(c)
    \/ \E id \in Ids : removeParentFromTicket(c, id)
    \/ removeParentFromTicketUpdate(c)
    \/ Return(c)

NextConc == \E c \in Callers : Reparent(c)

SpecConc == Init /\ [][NextConc]_vars

\* the queries
Read(c) ==
    \/ tickets(c)
    \/ \E id \in Ids : ticket(c, id)
    \/ \E id \in Ids : children(c, id)
    \/ Return(c)

\* creation and bulk re-parenting
Bulk(c) ==
    \/ createTicket(c, "Epic", FALSE)
    \/ \E parentId \in Ids, childrenIds \in ChildLists :
          addChildrenToTicket(c, parentId, childrenIds)
    \/ \E i \in 1..MaxChildren : addChildrenToTicketThen(c, i)
    \/ \E i \in 1..MaxChildren : addChildrenToTicketUpdate(c, i)
    \/ \E parentId \in Ids, childrenIds \in ChildLists :
          addChildrenToTicketReturningArray(c, parentId, childrenIds)
    \/ \E i \in 1..MaxChildren : addChildrenToTicketReturningArrayThen(c, i)
    \/ \E i \in 1..MaxChildren : addChildrenToTicketReturningArrayUpdate(c, i)
    \/ Return(c)

\* one caller creates and re-parents in bulk while the others query
NextBulk == Bulk(1) \/ \E c \in Callers \ {1} : Read(c)

SpecBulk == Init /\ [][NextBulk]_vars

\* one request at a time, creating, removing and re-parenting in bulk, over a
\* store whose accesses may fail
NextFail ==
    \/ Bulk(1)
    \/ \E id \in Ids : removeTicket(1, id)
    \/ removeTicketDestroy(1)
    \/ Rejects(1)

SpecFail == Init /\ [][NextFail]_vars

\* the childrenIds that name one ticket, any number of times
Repeats == {l \in ChildLists : \A i \in DOMAIN l, j \in DOMAIN l : l[i] = l[j]}

\* creation and bulk re-parenting of one ticket at a time
AddRepeated(c) ==
    \/ createTicket(c, "Epic", FALSE)
    \/ \E parentId \in Ids, childrenIds \in Repeats :
          addChildrenToTicket(c, parentId, childrenIds)
    \/ \E i \in 1..MaxChildren : addChildrenToTicketThen(c, i)
    \/ \E i \in 1..MaxChildren : addChildrenToTicketUpdate(c, i)
    \/ \E parentId \in Ids, childrenIds \in Repeats :
          addChildrenToTicketReturningArray(c, parentId, childrenIds)
    \/ \E i \in 1..MaxChildren : addChildrenToTicketReturningArrayThen(c, i)
    \/ \E i \in 1..MaxChildren : addChildrenToTicketReturningArrayUpdate(c, i)
    \/ Return(c)

NextRepeat == AddRepeated(1)

SpecRepeat == Init /\ [][NextRepeat]_vars

----------------------------------------------------------------------------
(* the tree the table holds *)

\* the ids met by following parentId from t, at most n links far
RECURSIVE Reach(_, _, _)
Reach(s, t, n) ==
    IF n = 0 \/ ~s[t].exists \/ s[t].parentId = Null
    THEN {}
    ELSE {s[t].parentId} \cup Reach(s, s[t].parentId, n - 1)

Ancestors(s, t) == Reach(s, t, MaxId)

Acyclic(s) == \A t \in Ids : s[t].exists => t \notin Ancestors(s, t)

ParentsExist(s) ==
    \A t \in Ids : s[t].exists /\ s[t].parentId # Null => s[s[t].parentId].exists

\* no existing ticket's parentId differs between s and t
SameParents(s, t) ==
    \A k \in Ids : s[k].exists /\ t[k].exists => s[k].parentId = t[k].parentId

Failed(call) == call.result.kind = "error"

Finished(c, op) == calls[c].op = op /\ calls[c].pc = "done"

AddChildrenOps == {"addChildrenToTicket", "addChildrenToTicketReturningArray"}

----------------------------------------------------------------------------
(* claims *)

\* C1: in every reachable state no ticket is its own ancestor: following
\* parentId from a ticket never comes back to it.
C1_Acyclicity == Acyclic(store)

\* C2: in every reachable state every non-null parentId is the id of a ticket
\* that exists.
C2_ReferentialIntegrity == ParentsExist(store)

\* C3: when an addChildren request on an existing parent p is over, either
\* every id of childrenIds is a ticket with parentId p, or no ticket's parentId
\* differs from what it was before the request.
C3_AllOrNothing ==
    \A c \in Callers :
        /\ calls[c].op \in AddChildrenOps
        /\ calls[c].pc = "done"
        /\ pre[calls[c].parentId].exists
        => \/ \A i \in DOMAIN calls[c].childrenIds :
                /\ store[calls[c].childrenIds[i]].exists
                /\ store[calls[c].childrenIds[i]].parentId = calls[c].parentId
           \/ SameParents(pre, store)

\* C4: of two interleaved requests setParentOfTicket(parentId: b, childId: a)
\* and setParentOfTicket(parentId: a, childId: b) on tickets that were
\* unrelated when the later of the two was received, at most one succeeds, and
\* a and b never end up as each other's parent.
C4_NoMutualReparent ==
    \A a \in Ids, b \in Ids :
        /\ a # b
        /\ pre[a].exists /\ pre[b].exists
        /\ pre[a].parentId # b /\ pre[b].parentId # a
        /\ calls[1].op = "setParentOfTicket" /\ calls[2].op = "setParentOfTicket"
        /\ calls[1].id = a /\ calls[1].parentId = b
        /\ calls[2].id = b /\ calls[2].parentId = a
        => /\ ~(calls[1].result.kind = "ticket" /\ calls[2].result.kind = "ticket")
           /\ ~(store[a].parentId = b /\ store[b].parentId = a)

\* C5: setParentOfTicket with parentId = childId = an existing id fails and
\* leaves every ticket as it was.
C5_SelfParentRejected ==
    \A c \in Callers :
        /\ Finished(c, "setParentOfTicket")
        /\ calls[c].parentId = calls[c].id
        /\ pre[calls[c].id].exists
        => Failed(calls[c]) /\ store = pre

\* C6: setParentOfTicket(childId: c, parentId: p) with c a proper ancestor of
\* p fails and leaves every ticket's parentId as it was.
C6_CycleRejected ==
    \A c \in Callers :
        /\ Finished(c, "setParentOfTicket")
        /\ pre[calls[c].id].exists /\ pre[calls[c].parentId].exists
        /\ calls[c].id # calls[c].parentId
        /\ calls[c].id \in Ancestors(pre, calls[c].parentId)
        => Failed(calls[c]) /\ SameParents(pre, store)

\* C7: setParentOfTicket fails with an error and changes no ticket whenever
\* childId or parentId names no existing ticket.
C7_SetParentNotFound ==
    \A c \in Callers :
        /\ Finished(c, "setParentOfTicket")
        /\ ~pre[calls[c].id].exists \/ ~pre[calls[c].parentId].exists
        => Failed(calls[c]) /\ store = pre

\* C8: after removeTicket(t) has returned true for a ticket t with children,
\* t is gone and every ticket that was a child of t exists, has parentId null
\* and is among the roots the tickets query returns.
C8_RemoveOrphans ==
    \A c \in Callers :
        /\ Finished(c, "removeTicket")
        /\ calls[c].result = BoolResult(TRUE)
        => /\ ~store[calls[c].id].exists
           /\ \A k \in getChildren(pre, calls[c].id) :
                /\ store[k].exists
                /\ store[k].parentId = Null
                /\ k \in findAllRoots(store)

\* the id a mutation addresses: the ticket it is asked to change, or the
\* parent it is asked to fill
Addressed(call) ==
    IF call.op \in AddChildrenOps THEN call.parentId ELSE call.id

AddressingOps ==
    {"updateTicket", "toggleTicket", "removeTicket", "setParentOfTicket",
     "removeParentFromTicket"} \cup AddChildrenOps

\* C9: removeTicket of an id that does not exist returns false and leaves the
\* table as it was, and every other mutation addressed to an id that does not
\* exist ends in an error.
C9_OnlyRemoveTolerantOfAbsence ==
    \A c \in Callers :
        /\ calls[c].op \in AddressingOps
        /\ calls[c].pc = "done"
        /\ ~pre[Addressed(calls[c])].exists
        => IF calls[c].op = "removeTicket"
           THEN calls[c].result = BoolResult(FALSE) /\ store = pre
           ELSE Failed(calls[c])

\* C10: removeParentFromTicket(id) of an existing ticket returns the ticket
\* with parentId null, so that it is among the roots, and every ticket that
\* was a child of id still has id as its parent.
C10_RemoveParentMakesRoot ==
    \A c \in Callers :
        /\ Finished(c, "removeParentFromTicket")
        /\ pre[calls[c].id].exists
        => /\ calls[c].result = TicketResult(calls[c].id)
           /\ store[calls[c].id].parentId = Null
           /\ calls[c].id \in findAllRoots(store)
           /\ \A k \in getChildren(pre, calls[c].id) :
                store[k].exists /\ store[k].parentId = calls[c].id

\* r leaves idle in this step with a query answered from the table
ReadStep(r) ==
    /\ calls[r].pc = "idle"
    /\ calls'[r].op \in {"tickets", "ticket", "children"}

\* some but not all of the children listed in the request have parentId p in s
PartlyAssigned(s, call) ==
    \E i \in DOMAIN call.childrenIds, j \in DOMAIN call.childrenIds :
        /\ s[call.childrenIds[i]].exists
        /\ s[call.childrenIds[i]].parentId = call.parentId
        /\ ~(s[call.childrenIds[j]].exists
             /\ s[call.childrenIds[j]].parentId = call.parentId)

\* none of the (existing) children listed in the request has parentId p in s
NoneAssigned(s, call) ==
    \A i \in DOMAIN call.childrenIds :
        /\ s[call.childrenIds[i]].exists
        /\ s[call.childrenIds[i]].parentId # call.parentId

\* C11: while an addChildren request naming two or more existing tickets, none
\* of them a child of p beforehand, is in flight or has answered with promise
\* chains still running, no query is answered from a table in which some but
\* not all of the listed tickets have parentId p.
C11_NoPartialRead ==
    [][\A r \in Callers, w \in Callers :
          /\ r # w
          /\ ReadStep(r)
          /\ calls[w].op \in AddChildrenOps
          /\ Len(calls[w].childrenIds) >= 2
          /\ NoneAssigned(pre, calls[w])
          => ~PartlyAssigned(store, calls[w])]_vars

\* C12: an addChildren request on an existing parent whose childrenIds names
\* a ticket that does not exist, at whatever position, fails with an error
\* that names a ticket that does not exist, and the parent has the children
\* it had before.
C12_MissingChildFailsWhole ==
    \A c \in Callers :
        /\ calls[c].op \in AddChildrenOps
        /\ calls[c].pc = "done"
        /\ pre[calls[c].parentId].exists
        /\ \E i \in DOMAIN calls[c].childrenIds : ~pre[calls[c].childrenIds[i]].exists
        => /\ Failed(calls[c])
           /\ ~pre[calls[c].result.id].exists
           /\ getChildren(store, calls[c].parentId) = getChildren(pre, calls[c].parentId)

\* C13: a request that has been received and has not been answered has a step
\* left to take: no request stays pending with nothing left to run.  Every
\* chain of a request is finite, so this is what completion comes to.
C13_EveryInvocationCompletes ==
    \A c \in Callers :
        \/ calls[c].pc = "idle"
        \/ calls[c].result # Pending
        \/ ENABLED Resolve(c, {"Epic"}, {FALSE})

\* C14: an addChildren request (either variant) on an existing parent p that
\* lists an existing ticket k once or twice succeeds, and when it is over the
\* table is the one it was received in with k's parentId set to p: the same
\* table for [k, k] as for [k].
C14_DuplicatesIdempotent ==
    \A c \in Callers, k \in Ids :
        /\ calls[c].op \in AddChildrenOps
        /\ calls[c].pc = "done"
        /\ calls[c].childrenIds \in {<<k>>, <<k, k>>}
        /\ pre[calls[c].parentId].exists
        /\ pre[k].exists
        => /\ calls[c].result.kind \in {"ticket", "array"}
           /\ store = [pre EXCEPT ![k].parentId = calls[c].parentId]

\* an addChildrenToTicket request listing a root twice is over
C14_Witness ==
    \E c \in Callers, k \in Ids :
        /\ Finished(c, "addChildrenToTicket")
        /\ calls[c].childrenIds = <<k, k>>
        /\ pre[calls[c].parentId].exists
        /\ pre[k].exists
        /\ pre[k].parentId = Null
        /\ store[k].parentId = calls[c].parentId

\* C15: whether an addChildren request fails does not depend on the order in
\* which the lookups of the listed ids are answered, which is the order of
\* the list when the store answers in the order it is asked: a request with
\* every lookup outstanding never has both an answer that rejects it and an
\* answer that resolves it with an update.
C15_OrderIndependent ==
    \A c \in Callers :
        /\ calls[c].op \in AddChildrenOps
        /\ calls[c].pc = "children"
        /\ \A i \in DOMAIN calls[c].subs : calls[c].subs[i] = "find"
        => ~ /\ ENABLED (/\ \E i \in 1..MaxChildren : addChildrenToTicketThen(c, i)
                         /\ Failed(calls'[c]))
             /\ ENABLED (/\ \E i \in 1..MaxChildren : addChildrenToTicketThen(c, i)
                         /\ calls'[c].locked # 0)

\* the table of the scenario: R = 1, A = 2 and B = 3 created as "Epic" from
\* the empty table, A with parent pA and B with parent pB
Tree(pA, pB) ==
    [k \in Ids |->
        IF k = 1 THEN Ticket("Epic", FALSE, Null)
        ELSE IF k = 2 THEN Ticket("Epic", FALSE, pA)
        ELSE IF k = 3 THEN Ticket("Epic", FALSE, pB)
        ELSE NoTicket]

\* C16: the scenario stands on its first step: once addChildrenToTicket(R,
\* [A, B]), received with R, A and B the three roots, has answered, the
\* children of R are exactly {A, B}, so that a children query sent after the
\* answer returns {A, B} (and the re-parenting of A under B, the
\* removeParentFromTicket(B) and the tickets query that follow start from
\* that table).
C16_Scenario ==
    [][\A r \in Callers, w \in Callers :
          /\ r # w
          /\ calls[w].op = "addChildrenToTicket"
          /\ calls[w].parentId = 1
          /\ calls[w].childrenIds = <<2, 3>>
          /\ pre = Tree(Null, Null)
          /\ calls[w].result.kind = "ticket"
          /\ calls[r].pc = "idle"
          /\ calls'[r].op = "children"
          /\ calls'[r].id = 1
          => calls'[r].result = ChildrenResult({2, 3})]_vars

\* the array variant answers with the tickets listed, each with parentId p
ArrayOfChildren(call) ==
    /\ call.result = ArrayResult(call.childrenIds)
    /\ \A i \in DOMAIN call.childrenIds :
          /\ store[call.childrenIds[i]].exists
          /\ store[call.childrenIds[i]].parentId = call.parentId

\* C17: an addChildrenToTicket request that succeeds answers with the ticket
\* whose id is parentId, and an addChildrenToTicketReturningArray request
\* that succeeds answers with the tickets listed in childrenIds, each of them
\* with parentId p in the table.
C17_BulkResults ==
    \A c \in Callers :
        /\ calls[c].op = "addChildrenToTicket" /\ calls[c].result.kind = "ticket"
           => calls[c].result = TicketResult(calls[c].parentId)
        /\ calls[c].op = "addChildrenToTicketReturningArray"
              /\ calls[c].result.kind = "array"
           => ArrayOfChildren(calls[c])

\* C18: whenever a store access of a mutation fails, the request ends in an
\* error: neither in a normal result nor with the failure only logged.
C18_FailuresSurfaced ==
    [][\A c \in Callers : Rejects(c) => Failed(calls'[c])]_vars

\* C19: an addChildren request (either variant) whose parentId names no
\* ticket ends in the error "Parent ticket not found" without a lookup of any
\* listed ticket having been started, and the table is as it was.
C19_MissingParentNotFound ==
    \A c \in Callers :
        /\ calls[c].op \in AddChildrenOps
        /\ ~pre[calls[c].parentId].exists
        => /\ calls[c].pc = "done"
           /\ calls[c].result = ErrorResult("Parent ticket not found", calls[c].parentId)
           /\ calls[c].subs = <<>>
           /\ store = pre

\* an addChildren request naming a missing parent and an existing ticket has
\* been answered
C19_Witness ==
    \E c \in Callers, i \in 1..MaxChildren :
        /\ calls[c].op \in AddChildrenOps
        /\ calls[c].pc = "done"
        /\ ~pre[calls[c].parentId].exists
        /\ i \in DOMAIN calls[c].childrenIds
        /\ pre[calls[c].childrenIds[i]].exists
        /\ Failed(calls[c])

\* the ids of the tickets of table s
Existing(s) == {k \in Ids : s[k].exists}

\* the tickets whose parentId differs between s and t
Reparented(s, t) == {k \in Ids : s[k].parentId # t[k].parentId}

\* the request of which caller c takes a step
Stepping(c) == IF calls[c].pc = "idle" THEN calls'[c] ELSE calls[c]

Listed(call) == {call.childrenIds[i] : i \in DOMAIN call.childrenIds}

\* C20: every step of a request keeps to the frame of its mutation: a step
\* of updateTicket or toggleTicket changes no parentId; a step of
\* setParentOfTicket or removeParentFromTicket changes the parentId of the
\* ticket it names at most; a step of an addChildren request changes the
\* parentId of listed tickets only; and the set of ids changes only when
\* createTicket adds one root under an id never handed out before and when
\* removeTicket removes the ticket it names, and no other.
C20_Frame ==
    [][\A c \in Callers :
          calls'[c] # calls[c] =>
            LET call == Stepping(c)
            IN /\ call.op \in {"updateTicket", "toggleTicket"}
                  => Reparented(store, store') = {}
               /\ call.op \in {"setParentOfTicket", "removeParentFromTicket"}
                  => Reparented(store, store') \subseteq {call.id}
               /\ call.op \in AddChildrenOps
                  => Reparented(store, store') \subseteq Listed(call)
               /\ call.op = "createTicket" /\ calls[c].pc = "idle"
                  => /\ Existing(store') = Existing(store) \cup {call.id}
                     /\ call.id >= nextId
                     /\ nextId' > call.id
                     /\ ~store[call.id].exists
                     /\ store'[call.id].parentId = Null
                     /\ Reparented(store, store') = {}
               /\ call.op = "removeTicket"
                  => Existing(store) \ {call.id} \subseteq Existing(store')
               /\ Existing(store') # Existing(store)
                  => \/ call.op = "createTicket" /\ calls[c].pc = "idle"
                     \/ call.op = "removeTicket"]_vars

\* removeTicket has removed a ticket whose child has a child of its own, and
\* both are still there
C20_Witness ==
    \E c \in Callers, k \in Ids, j \in Ids :
        /\ Finished(c, "removeTicket")
        /\ calls[c].result = BoolResult(TRUE)
        /\ k # calls[c].id /\ j # calls[c].id /\ j # k
        /\ pre[k].exists /\ pre[k].parentId = calls[c].id
        /\ pre[j].exists /\ pre[j].parentId = k
        /\ ~store[calls[c].id].exists
        /\ store[k].exists /\ store[j].exists

====
